---- MODULE Spec2Model ----
(***************************************************************************)
(* Android signing-credential operations of xdl                            *)
(* (packages/xdl/src/credentials/AndroidCredentials.js): every exported    *)
(* async function is a caller-visible operation whose body runs to the     *)
(* next await in one step; the external tools (keytool, the PEPK jar on a  *)
(* pty, axios, the credential service, the file system) are the            *)
(* environment and answer nondeterministically.  Web.openProjectAsync      *)
(* (packages/xdl/src/Web.js) is modelled the same way, with the project    *)
(* configuration, the url construction and opn as its environment.         *)
(***************************************************************************)
EXTENDS Naturals, Sequences, FiniteSets, TLC

VARIABLES
    platform,   \* process.platform, fixed for the life of the process
    files,      \* the file system: path -> content
    pc,         \* per caller: where its current call is suspended
    call,       \* per caller: the operation called and its arguments
    out,        \* per caller: what the call's log sink has received, in order
    result,     \* per caller: how the call ended (returned / threw)
    hashes,     \* per caller: logKeystoreHashes' locals and history
    pepk,       \* per caller: exportPrivateKey's download stream and pty session
    backup,     \* per caller: backupExistingCredentials' lookup and write
    gen,        \* generateUploadKeystore: uuids drawn, keytool runs, secrets returned
    fp,         \* the fingerprint formatting of logKeystoreHashes, on its own
    web         \* per caller: Web.openProjectAsync's config, url and browser opens

vars == <<platform, files, pc, call, out, result, hashes, pepk, backup, gen, fp, web>>

----------------------------------------------------------------------------
(* Values *)

\* the callers that exist; Callers are those that call in Spec, one after the
\* other; ConcSpec lets both run logKeystoreHashes at once
Procs == {"c1", "c2"}

Callers == {"c1"}

Platforms == {"win32", "linux"}

KeystorePaths == {"k", "k.cer"}

\* the keystores of the concurrent operations: one more, unrelated to the others
ConcKeystorePaths == KeystorePaths \cup {"j"}

CertFile_SamePath(keystorePath) ==
    keystorePath

CertFile_Shared(keystorePath) ==
    "keystore.cer"

\* src line 151: the temporary certificate path is derived from the keystore path
CertFile(keystorePath) ==
    keystorePath \o ".cer"

Paths == KeystorePaths \cup {CertFile(k) : k \in KeystorePaths}

\* src line 90: the cache path of the encryption tool
EncryptToolPath == "~/.expo/android_tools_pepk.jar"
PepkJar == "pepk.jar"

ConcPaths == ConcKeystorePaths \cup {CertFile(k) : k \in ConcKeystorePaths}

AllPaths == Paths \cup ConcPaths \cup {EncryptToolPath}

\* src line 17
NEWLINE == IF platform = "win32" THEN "\r\n" ELSE "\n"

Absent == "absent"
KeystoreBytes == "ks"
PartialBytes == "partial"
CertOf(keystorePath) == "cert:" \o keystorePath

\* the log sinks a caller can pass: the default (logger.info.bind(logger)) and a
\* plain function are callable but carry no .warn / .error; a logger-like
\* function object carries both
SinkKinds == {"default", "plainFn", "withMethods"}

HasMethod(sink, method) ==
    sink = "withMethods"

Credentials ==
    { [keystorePassword |-> "pw1", keyAlias |-> "alias", keyPassword |-> "pw2"],
      [keystorePassword |-> "pw2", keyAlias |-> "alias", keyPassword |-> "pw2"] }

NoSecrets == [keystorePassword |-> "", keyAlias |-> "", keyPassword |-> ""]

Err(name, code, stdout, stderr, message) ==
    [name |-> name, code |-> code, stdout |-> stdout, stderr |-> stderr,
     message |-> message]

NoErr == Err("none", "", "", "", "")
TypeError(what) == Err("TypeError", "", "", "", what \o " is not a function")

Returned(value) == [kind |-> "return", err |-> NoErr, value |-> value]
Threw(err) == [kind |-> "throw", err |-> err, value |-> NoSecrets]
NoResult == [kind |-> "none", err |-> NoErr, value |-> NoSecrets]

\* a logged message: the template's fixed text and the interpolated pieces
Msg(level, tpl, args) == [level |-> level, tpl |-> tpl, args |-> args]

\* chalk.bold: the text between the bold-on and bold-off escape sequences
Bold(text) == <<"ESC[1m", text, "ESC[22m">>

NoCall ==
    [op |-> "none", keystorePath |-> "", outputPath |-> "", log |-> "default",
     logSecrets |-> "omitted", creds |-> NoSecrets,
     experienceName |-> <<>>, androidPackage |-> "", projectRoot |-> ""]

NoPepk ==
    [stream |-> "none", fetchFailure |-> "none", spawns |-> 0, trace |-> <<>>,
     writes |-> <<>>, settled |-> "pending", events |-> <<>>]

\* what the credential service holds for an identity (src lines 20-25)
NoRecord ==
    [keystore |-> "", keystorePassword |-> "", keyPassword |-> "", keystoreAlias |-> ""]

NoBackup ==
    [lookup |-> "none", record |-> NoRecord, before |-> "", wrote |-> FALSE]

NoHashes ==
    [exportErr |-> NoErr, exported |-> FALSE, wroteFile |-> FALSE, readFrom |-> "",
     body |-> NoResult, unlinkErr |-> NoErr, unlinked |-> FALSE,
     before |-> [f \in AllPaths |-> Absent], with |-> {}]

NoGen ==
    [used |-> {}, spawns |-> [p \in Procs |-> <<>>],
     settled |-> [p \in Procs |-> "pending"], returned |-> <<>>]

NoFp ==
    [stage |-> "none", digest |-> <<>>, googleHash |-> <<>>, fingerprint |-> <<>>,
     out |-> <<>>]

NoWeb ==
    [platforms |-> "unread", url |-> "", opens |-> <<>>, openOutcome |-> "none",
     unhandled |-> NoErr]

----------------------------------------------------------------------------
(* logKeystoreHashes *)

\* the logKeystoreHashes calls that are suspended (started, not yet ended)
InFlight ==
    { q \in Procs : pc[q] \in {"awaitExport", "exportSettled"} }

\* lines 147-153: certFile is computed and keytool is spawned; the call suspends.
\* (before and with are history: the files at the call, the calls it overlaps)
HashesCallWith(p, keystorePaths, sinks, credentials) ==
    /\ pc[p] = "idle"
    /\ \E k \in keystorePaths, sink \in sinks, c \in credentials :
          call' = [call EXCEPT ![p] =
                      [NoCall EXCEPT !.op = "logKeystoreHashes",
                                     !.keystorePath = k, !.log = sink, !.creds = c]]
    /\ pc' = [pc EXCEPT ![p] = "awaitExport"]
    /\ out' = [out EXCEPT ![p] = <<>>]
    /\ result' = [result EXCEPT ![p] = NoResult]
    /\ hashes' = [q \in Procs |->
                     IF q = p THEN [NoHashes EXCEPT !.before = files, !.with = InFlight]
                     ELSE IF q \in InFlight THEN [hashes[q] EXCEPT !.with = @ \cup {p}]
                     ELSE hashes[q]]
    /\ pepk' = [pepk EXCEPT ![p] = NoPepk]
    /\ backup' = [backup EXCEPT ![p] = NoBackup]
    /\ UNCHANGED <<gen, fp, web, platform, files>>

LogKeystoreHashesCall(p) ==
    HashesCallWith(p, KeystorePaths, SinkKinds, Credentials)

\* lines 62-82: the keytool child started by spawnAsync runs to its end.
\*   missing executable -> error with code ENOENT, nothing written
\*   exit 0             -> the certificate of the keystore is at certFile
\*   exit non-zero      -> error carrying the captured stdout / stderr; keytool
\*                         may have created the output file before failing
ExportCert(p) ==
    /\ pc[p] = "awaitExport"
    /\ LET k == call[p].keystorePath
           certFile == CertFile(k)
       IN  \/ /\ hashes' = [hashes EXCEPT ![p].exportErr =
                               Err("Error", "ENOENT", "", "", "spawn keytool ENOENT")]
              /\ UNCHANGED files
           \/ /\ files[k] = KeystoreBytes
              /\ files' = [files EXCEPT ![certFile] = CertOf(k)]
              /\ hashes' = [hashes EXCEPT ![p].exported = TRUE]
           \/ \E so \in {"", "keytool error"}, se \in {"", "warning"}, wrote \in BOOLEAN :
                 /\ files' = IF wrote THEN [files EXCEPT ![certFile] = PartialBytes]
                                      ELSE files
                 /\ hashes' = [hashes EXCEPT
                                  ![p].wroteFile = wrote,
                                  ![p].exportErr =
                                      Err("Error", "", so, se, "keytool exited with non-zero code: 1")]
    /\ pc' = [pc EXCEPT ![p] = "exportSettled"]
    /\ UNCHANGED <<gen, fp, web, platform, call, out, result, pepk, backup>>

\* lines 154-172: the try block after the export: read the certificate, log the
\* four digests of the bytes read
TryBlock(fs, certFile, exportErr, readOk) ==
    IF exportErr.name # "none"
    THEN [threw |-> TRUE, err |-> exportErr, out |-> <<>>, readFrom |-> ""]
    ELSE IF fs[certFile] = Absent
    THEN [threw |-> TRUE, out |-> <<>>, readFrom |-> "",
          err |-> Err("Error", "ENOENT", "", "", "ENOENT: no such file or directory, open")]
    ELSE IF ~readOk
    THEN [threw |-> TRUE, out |-> <<>>, readFrom |-> "",
          err |-> Err("Error", "EACCES", "", "", "EACCES: permission denied, open")]
    ELSE [threw |-> FALSE, err |-> NoErr, readFrom |-> fs[certFile],
          out |-> << Msg("info", "Google Certificate Fingerprint", <<fs[certFile]>>),
                     Msg("info", "Google Certificate Hash (SHA-1)", <<fs[certFile]>>),
                     Msg("info", "Google Certificate Hash (SHA-256)", <<fs[certFile]>>),
                     Msg("info", "Facebook Key Hash", <<fs[certFile]>>) >>]

\* lines 173-185: the catch block: guidance for a missing keytool, the captured
\* streams, then the error is rethrown.  log.warn / log.error are property
\* lookups on the sink: calling a missing one throws a TypeError from the block.
CatchBlock(sink, err) ==
    LET guidance ==
            IF err.code = "ENOENT"
            THEN IF HasMethod(sink, "warn")
                 THEN [threw |-> FALSE,
                       out |-> << Msg("warn", "Are you sure you have keytool installed?", <<>>),
                                  Msg("info", "keytool is part of openJDK", <<>>),
                                  Msg("info", "Also make sure that keytool is in your PATH", <<>>) >>]
                 ELSE [threw |-> TRUE, out |-> <<>>]
            ELSE [threw |-> FALSE, out |-> <<>>]
        stdout ==
            IF err.stdout # "" THEN << Msg("info", "stdout", <<err.stdout>>) >> ELSE <<>>
    IN  IF guidance.threw
        THEN [out |-> guidance.out, err |-> TypeError("log.warn")]
        ELSE IF err.stderr # ""
        THEN IF HasMethod(sink, "error")
             THEN [out |-> guidance.out \o stdout \o << Msg("error", "stderr", <<err.stderr>>) >>,
                   err |-> err]
             ELSE [out |-> guidance.out \o stdout, err |-> TypeError("log.error")]
        ELSE [out |-> guidance.out \o stdout, err |-> err]

FinallyBlock_NoUnlink(sink, fs, certFile, unlinkOk) ==
    [files |-> fs, out |-> <<>>, threw |-> FALSE, err |-> NoErr, unlinked |-> FALSE,
     unlinkErr |-> NoErr]

\* lines 186-194: the finally block: unlink the certificate file; ENOENT is
\* swallowed, any other unlink error goes to log.error
FinallyBlock(sink, fs, certFile, unlinkOk) ==
    IF fs[certFile] = Absent
    THEN [files |-> fs, out |-> <<>>, threw |-> FALSE, err |-> NoErr, unlinked |-> FALSE,
          unlinkErr |-> Err("Error", "ENOENT", "", "", "ENOENT: no such file or directory, unlink")]
    ELSE IF unlinkOk
    THEN [files |-> [fs EXCEPT ![certFile] = Absent], out |-> <<>>, threw |-> FALSE,
          err |-> NoErr, unlinked |-> TRUE, unlinkErr |-> NoErr]
    ELSE LET e == Err("Error", "EPERM", "", "", "EPERM: operation not permitted, unlink")
         IN  IF HasMethod(sink, "error")
             THEN [files |-> fs, out |-> << Msg("error", "cleanup", <<e.code>>) >>,
                   threw |-> FALSE, err |-> NoErr, unlinked |-> FALSE, unlinkErr |-> e]
             ELSE [files |-> fs, out |-> <<>>, threw |-> TRUE, err |-> TypeError("log.error"),
                   unlinked |-> FALSE, unlinkErr |-> e]

\* lines 152-195: the continuation after the export settles runs without another
\* suspend point to the end of the call
LogKeystoreHashesResume(p) ==
    /\ pc[p] = "exportSettled"
    /\ \E readOk \in BOOLEAN, unlinkOk \in BOOLEAN :
          LET sink == call[p].log
              certFile == CertFile(call[p].keystorePath)
              try == TryBlock(files, certFile, hashes[p].exportErr, readOk)
              catch == IF try.threw THEN CatchBlock(sink, try.err)
                                    ELSE [out |-> <<>>, err |-> NoErr]
              body == IF try.threw THEN Threw(catch.err) ELSE Returned(NoSecrets)
              fin == FinallyBlock(sink, files, certFile, unlinkOk)
          IN  /\ files' = fin.files
              /\ out' = [out EXCEPT ![p] = @ \o try.out \o catch.out \o fin.out]
              /\ result' = [result EXCEPT ![p] = IF fin.threw THEN Threw(fin.err) ELSE body]
              /\ hashes' = [hashes EXCEPT ![p].readFrom = try.readFrom,
                                          ![p].body = body,
                                          ![p].unlinkErr = fin.unlinkErr,
                                          ![p].unlinked = fin.unlinked]
    /\ pc' = [pc EXCEPT ![p] = "done"]
    /\ UNCHANGED <<gen, fp, web, platform, call, pepk, backup>>

----------------------------------------------------------------------------
(* exportPrivateKey *)

MaxChildErrors == 1

ExitCodes == {0, 1}

SpawnError == Err("Error", "ENOENT", "", "", "spawn java ENOENT")
PtyError == Err("Error", "EIO", "", "", "read EIO")

\* String(error) of the template literal on line 143
ErrorToString(e) == e.name \o ": " \o e.message

\* line 143: every failure of the session is rethrown wrapped
KeyExportError(cause) ==
    Err("Error", "", "", "", "PEPK tool failed with return code " \o cause)

SuccessMsg(outputPath) ==
    Msg("info", "Exported and encrypted private app signing key to file", <<outputPath>>)

SpawnSession_KeyPasswordFirst(session, creds, spawnOk) ==
    IF ~spawnOk
    THEN [session EXCEPT !.settled = "rejected"]
    ELSE [session EXCEPT
            !.spawns = @ + 1,
            !.trace = <<"spawned", "password1-sent", "password2-sent">>,
            !.writes = << creds.keyPassword \o NEWLINE,
                          creds.keystorePassword \o NEWLINE >>]

\* lines 104-140: the promise executor: spawn the tool on a pty, attach the
\* handlers, write the two passwords.  A throwing ptySpawn rejects the promise.
SpawnSession(session, creds, spawnOk) ==
    IF ~spawnOk
    THEN [session EXCEPT !.settled = "rejected"]
    ELSE [session EXCEPT
            !.spawns = @ + 1,
            !.trace = <<"spawned", "password1-sent", "password2-sent">>,
            !.writes = << creds.keystorePassword \o NEWLINE,
                          creds.keyPassword \o NEWLINE >>]

\* lines 103-145 from the try on: run the executor; a synchronous rejection is
\* caught and rethrown at once, otherwise the call suspends on the session
StartSession(p, session, creds) ==
    \E spawnOk \in BOOLEAN :
        LET s == SpawnSession(session, creds, spawnOk)
        IN  /\ pepk' = [pepk EXCEPT ![p] = s]
            /\ IF spawnOk
               THEN /\ pc' = [pc EXCEPT ![p] = "awaitChild"]
                    /\ result' = [result EXCEPT ![p] = NoResult]
               ELSE /\ pc' = [pc EXCEPT ![p] = "done"]
                    /\ result' = [result EXCEPT ![p] =
                                     Threw(KeyExportError(ErrorToString(SpawnError)))]

\* lines 90-97: existsSync on the cache path; when the tool is absent the
\* download starts (write stream created, request sent) and the call suspends
ExportPrivateKeyBody(p, creds) ==
    /\ IF files[EncryptToolPath] # Absent
       THEN /\ StartSession(p, NoPepk, creds)
            /\ out' = [out EXCEPT ![p] = <<>>]
            /\ UNCHANGED files
       ELSE /\ out' = [out EXCEPT ![p] =
                          << Msg("info", "Downloading PEPK tool from Google Play to",
                                 <<EncryptToolPath>>) >>]
            /\ \E opened \in BOOLEAN :
                  /\ pepk' = [pepk EXCEPT ![p] =
                                 [NoPepk EXCEPT !.stream = IF opened THEN "open" ELSE "willFail"]]
                  /\ files' = IF opened THEN [files EXCEPT ![EncryptToolPath] = PartialBytes]
                                        ELSE files
            /\ pc' = [pc EXCEPT ![p] = "awaitAxios"]
            /\ result' = [result EXCEPT ![p] = NoResult]

\* lines 84-89: a call of exportPrivateKey with its arguments
ExportPrivateKeyCall(p) ==
    /\ pc[p] = "idle"
    /\ \E c \in Credentials, sink \in SinkKinds :
          /\ call' = [call EXCEPT ![p] =
                         [NoCall EXCEPT !.op = "exportPrivateKey", !.keystorePath = "k",
                                        !.outputPath = "out.pepk", !.log = sink, !.creds = c]]
          /\ ExportPrivateKeyBody(p, c)
    /\ hashes' = [hashes EXCEPT ![p] = NoHashes]
    /\ backup' = [backup EXCEPT ![p] = NoBackup]
    /\ UNCHANGED <<gen, fp, web, platform>>

\* line 96: the request settles: a rejection leaves the function as it is; a
\* response is piped into the file and the call waits for finish / error
AxiosSettles(p) ==
    /\ pc[p] = "awaitAxios"
    /\ \/ /\ pc' = [pc EXCEPT ![p] = "done"]
          /\ result' = [result EXCEPT ![p] =
                           Threw(Err("Error", "ECONNREFUSED", "", "", "connect ECONNREFUSED"))]
          /\ pepk' = [pepk EXCEPT ![p].fetchFailure = "http"]
       \/ /\ pc' = [pc EXCEPT ![p] = "awaitFinish"]
          /\ UNCHANGED <<result, pepk>>
    /\ UNCHANGED <<gen, fp, web, platform, files, call, out, hashes, backup>>

\* lines 95-100: the write stream emits 'error'.  The listener is attached only
\* after the request has settled (line 100): before that the event has no
\* listener and is an uncaught exception; after it, it rejects the wait.
FileStreamError(p) ==
    /\ \/ /\ pc[p] = "awaitAxios"
          /\ pepk[p].stream = "willFail"
          /\ pc' = [pc EXCEPT ![p] = "uncaught"]
          /\ UNCHANGED result
       \/ /\ pc[p] = "awaitFinish"
          /\ pc' = [pc EXCEPT ![p] = "done"]
          /\ result' = [result EXCEPT ![p] =
                           Threw(Err("Error", "ENOSPC", "", "", "ENOSPC: no space left on device, write"))]
    /\ pepk' = [pepk EXCEPT ![p].fetchFailure = "file"]
    /\ UNCHANGED <<gen, fp, web, platform, files, call, out, hashes, backup>>

\* lines 97-101: the response stream fails part-way.  pipe() does not forward a
\* source error to the file: the file neither finishes nor errors, so the wait
\* of lines 98-101 never settles (or, where the source emits 'error' with no
\* listener, the process takes an uncaught exception).
ResponseStreamFails(p) ==
    /\ pc[p] = "awaitFinish"
    /\ \E o \in {"hung", "uncaught"} : pc' = [pc EXCEPT ![p] = o]
    /\ pepk' = [pepk EXCEPT ![p].fetchFailure = "response"]
    /\ UNCHANGED <<gen, fp, web, platform, files, call, out, result, hashes, backup>>

\* lines 99, 103: 'finish': the whole response is on disk; the session starts
FileFinish(p) ==
    /\ pc[p] = "awaitFinish"
    /\ pepk[p].stream = "open"
    /\ files' = [files EXCEPT ![EncryptToolPath] = PepkJar]
    /\ StartSession(p, pepk[p], call[p].creds)
    /\ UNCHANGED <<gen, fp, web, platform, call, out, hashes, backup>>

ExitIsFailure_AboveOne(exitCode) ==
    exitCode > 1

\* line 132
ExitIsFailure(exitCode) ==
    exitCode # 0

\* lines 141-144: what follows the awaited session promise
AfterSession(settled, cause, outputPath) ==
    IF settled = "resolved"
    THEN [out |-> << SuccessMsg(outputPath) >>, result |-> Returned(NoSecrets)]
    ELSE [out |-> <<>>, result |-> Threw(KeyExportError(cause))]

Pending_Always(session) ==
    TRUE

\* lines 104-137: res / rej act on a promise only while it is pending
Pending(session) ==
    session.settled = "pending"

\* a promise settles once: later res() / rej() calls change nothing
Settle(session, how) ==
    IF Pending(session) THEN [session EXCEPT !.settled = how] ELSE session

\* lines 131-137 (and 141-144 when this settles the promise): the child's
\* 'exit' event
ChildExit(p) ==
    /\ pc[p] \in {"awaitChild", "done"}
    /\ pepk[p].spawns > 0
    /\ pepk[p].trace[Len(pepk[p].trace)] # "exited"
    /\ \E exitCode \in ExitCodes :
          LET how == IF ExitIsFailure(exitCode) THEN "rejected" ELSE "resolved"
              s == Settle([pepk[p] EXCEPT !.trace = Append(@, "exited"),
                                          !.events = Append(@, <<"exit", exitCode>>)], how)
              after == AfterSession(s.settled, ToString(exitCode), call[p].outputPath)
          IN  /\ pepk' = [pepk EXCEPT ![p] = s]
              /\ IF Pending(pepk[p])
                 THEN /\ out' = [out EXCEPT ![p] = @ \o after.out]
                      /\ result' = [result EXCEPT ![p] = after.result]
                 ELSE UNCHANGED <<out, result>>
    /\ pc' = [pc EXCEPT ![p] = "done"]
    /\ UNCHANGED <<gen, fp, web, platform, files, call, hashes, backup>>

\* lines 127-130 (and 142-144 when this settles the promise): the child's
\* 'error' event
ChildError(p) ==
    /\ pc[p] \in {"awaitChild", "done"}
    /\ pepk[p].spawns > 0
    /\ Cardinality({i \in 1..Len(pepk[p].events) : pepk[p].events[i][1] = "error"})
           < MaxChildErrors
    /\ LET s == Settle([pepk[p] EXCEPT !.events = Append(@, <<"error", 0>>)], "rejected")
           after == AfterSession(s.settled, ErrorToString(PtyError), call[p].outputPath)
       IN  /\ pepk' = [pepk EXCEPT ![p] = s]
           /\ out' = [out EXCEPT ![p] =
                         Append(@, Msg("info", "error", <<ErrorToString(PtyError)>>))
                             \o (IF Pending(pepk[p]) THEN after.out ELSE <<>>)]
           /\ result' = IF Pending(pepk[p])
                        THEN [result EXCEPT ![p] = after.result]
                        ELSE result
    /\ pc' = [pc EXCEPT ![p] = "done"]
    /\ UNCHANGED <<gen, fp, web, platform, files, call, hashes, backup>>

----------------------------------------------------------------------------
(* backupExistingCredentials, logKeystoreCredentials *)

ExperienceName == "@user/app"

KeystoreBlob == "a3M="

CredentialRecords ==
    { [keystore |-> KeystoreBlob, keystorePassword |-> c.keystorePassword,
       keyPassword |-> c.keyPassword, keystoreAlias |-> c.keyAlias] : c \in Credentials }

\* lines 40, 55-59: the three values handed back, keystoreAlias as keyAlias
SecretsOfRecord(record) ==
    [keystorePassword |-> record.keystorePassword, keyAlias |-> record.keystoreAlias,
     keyPassword |-> record.keyPassword]

\* line 42: Buffer.from(keystore, 'base64')
Base64Decode(blob) ==
    CASE blob = "a3M=" -> KeystoreBytes
      [] OTHER -> ""

LogSecretsValue_Ignored(arg) ==
    TRUE

\* line 30: logSecrets defaults to true when the caller leaves it out
LogSecretsValue(arg) ==
    IF arg = "omitted" THEN TRUE ELSE arg = "true"

CredentialsMissing_Unchecked(lookup) ==
    FALSE

\* line 37: !credentials
CredentialsMissing(lookup) ==
    lookup = "null"

CredentialNotFound ==
    Err("Error", "", "", "",
        "Unable to fetch credentials for this project. Are you sure they exist?")

SecretsMsg(title, creds) ==
    Msg("info", title,
        Bold(creds.keystorePassword) \o Bold(creds.keyAlias) \o Bold(creds.keyPassword))

\* lines 27-36: the call logs and suspends on the credential lookup
BackupExistingCredentialsCall(p) ==
    /\ pc[p] = "idle"
    /\ \E o \in Paths, sink \in SinkKinds, ls \in {"omitted", "true", "false"} :
          /\ call' = [call EXCEPT ![p] =
                         [NoCall EXCEPT !.op = "backupExistingCredentials",
                                        !.outputPath = o, !.log = sink, !.logSecrets = ls]]
          /\ backup' = [backup EXCEPT ![p] = [NoBackup EXCEPT !.lookup = "pending",
                                                              !.before = files[o]]]
    /\ out' = [out EXCEPT ![p] =
                  << Msg("info", "Retreiving Android keystore for", <<ExperienceName>>) >>]
    /\ pc' = [pc EXCEPT ![p] = "awaitLookup"]
    /\ result' = [result EXCEPT ![p] = NoResult]
    /\ hashes' = [hashes EXCEPT ![p] = NoHashes]
    /\ pepk' = [pepk EXCEPT ![p] = NoPepk]
    /\ UNCHANGED <<gen, fp, web, platform, files>>

\* lines 37-59: what follows the lookup.  lookup is "null" (no record), "failed"
\* (the service rejected) or "found"; writeFileSync ends "ok", fails before the
\* file is touched ("open") or fails part-way ("write").
BackupAfterLookup(fs, c, lookup, record, write) ==
    IF lookup = "failed"
    THEN [files |-> fs, out |-> <<>>, wrote |-> FALSE,
          result |-> Threw(Err("Error", "", "", "", "credential service request failed"))]
    ELSE IF CredentialsMissing(lookup)
    THEN [files |-> fs, out |-> <<>>, wrote |-> FALSE, result |-> Threw(CredentialNotFound)]
    ELSE LET storeBuf == Base64Decode(record.keystore)
             writing == << Msg("info", "Writing keystore to", <<c.outputPath>>) >>
         IN  IF write = "open"
             THEN [files |-> fs, out |-> writing, wrote |-> TRUE,
                   result |-> Threw(Err("Error", "EACCES", "", "", "EACCES: permission denied, open"))]
             ELSE IF write = "write"
             THEN [files |-> [fs EXCEPT ![c.outputPath] = PartialBytes], out |-> writing,
                   wrote |-> TRUE,
                   result |-> Threw(Err("Error", "ENOSPC", "", "", "ENOSPC: no space left on device, write"))]
             ELSE [files |-> [fs EXCEPT ![c.outputPath] = storeBuf],
                   wrote |-> TRUE,
                   out |-> writing \o
                           (IF LogSecretsValue(c.logSecrets)
                            THEN << Msg("info", "Done writing keystore to disk.", <<>>),
                                    SecretsMsg("Save these important values as well:",
                                               SecretsOfRecord(record)),
                                    Msg("info", "Keystore saved!", <<>>) >>
                            ELSE <<>>),
                   result |-> Returned(SecretsOfRecord(record))]

\* line 36: the lookup settles and the rest of the function runs to its end
GetCredentialsSettles(p) ==
    /\ pc[p] = "awaitLookup"
    /\ \E lookup \in {"null", "failed", "found"}, record \in CredentialRecords,
          write \in {"ok", "open", "write"} :
          LET r == BackupAfterLookup(files, call[p], lookup, record, write)
          IN  /\ files' = r.files
              /\ out' = [out EXCEPT ![p] = @ \o r.out]
              /\ result' = [result EXCEPT ![p] = r.result]
              /\ backup' = [backup EXCEPT ![p].lookup = lookup,
                                          ![p].wrote = r.wrote,
                                          ![p].record = IF lookup = "found" THEN record
                                                                            ELSE NoRecord]
    /\ pc' = [pc EXCEPT ![p] = "done"]
    /\ UNCHANGED <<gen, fp, web, platform, call, hashes, pepk>>

\* lines 197-207: synchronous; the credentials go to the sink
LogKeystoreCredentials(p) ==
    /\ pc[p] = "idle"
    /\ \E c \in Credentials, sink \in SinkKinds :
          /\ call' = [call EXCEPT ![p] =
                         [NoCall EXCEPT !.op = "logKeystoreCredentials",
                                        !.log = sink, !.creds = c]]
          /\ out' = [out EXCEPT ![p] = << SecretsMsg("Keystore credentials", c) >>]
    /\ result' = [result EXCEPT ![p] = Returned(NoSecrets)]
    /\ pc' = [pc EXCEPT ![p] = "done"]
    /\ hashes' = [hashes EXCEPT ![p] = NoHashes]
    /\ pepk' = [pepk EXCEPT ![p] = NoPepk]
    /\ backup' = [backup EXCEPT ![p] = NoBackup]
    /\ UNCHANGED <<gen, fp, web, platform, files>>

----------------------------------------------------------------------------
(* generateUploadKeystore, createKeystore *)

\* how many uuids the generator can hand out in one behaviour
MaxUuids == 4

HexDigits ==
    <<"0", "1", "2", "3", "4", "5", "6", "7", "8", "9", "a", "b", "c", "d", "e", "f">>

\* the text of a sequence of characters
RECURSIVE Join(_)
Join(chars) ==
    IF chars = <<>> THEN "" ELSE chars[1] \o Join(Tail(chars))

\* uuidv4(): 36 characters, xxxxxxxx-xxxx-4xxx-yxxx-xxxxxxxxxxxx; the n-th value
\* of the generator differs from every other one in each of its random digits
UuidV4(n) ==
    [i \in 1..36 |-> IF i \in {9, 14, 19, 24} THEN "-"
                      ELSE IF i = 15 THEN "4"
                      ELSE IF i = 20 THEN "8"
                      ELSE HexDigits[n + 1]]

\* the values the generator has not handed out yet
FreshUuids(used) ==
    (1..MaxUuids) \ used

RemoveHyphens_Everything(chars) ==
    <<>>

\* lines 241-242: .replace(/-/g, '')
RemoveHyphens(chars) ==
    SelectSeq(chars, LAMBDA c : c # "-")

\* the application names of the callers, as characters
UploadExperienceNames ==
    { <<"@", "u", "/", "a">>, <<"@", "u", "/", "a", "b">>, <<"@", "u", "/", "b", "a", "b">> }

\* Buffer.from(string): the UTF-8 bytes, one per character for these names
CharCode(c) ==
    CASE c = "@" -> 64
      [] c = "/" -> 47
      [] c = "a" -> 97
      [] c = "b" -> 98
      [] c = "u" -> 117

Utf8(chars) ==
    [i \in 1..Len(chars) |-> CharCode(chars[i])]

Base64Alphabet ==
    <<"A", "B", "C", "D", "E", "F", "G", "H", "I", "J", "K", "L", "M",
      "N", "O", "P", "Q", "R", "S", "T", "U", "V", "W", "X", "Y", "Z",
      "a", "b", "c", "d", "e", "f", "g", "h", "i", "j", "k", "l", "m",
      "n", "o", "p", "q", "r", "s", "t", "u", "v", "w", "x", "y", "z",
      "0", "1", "2", "3", "4", "5", "6", "7", "8", "9", "+", "/">>

\* line 243: .toString('base64'): three bytes make four characters, a short
\* last group is padded with "="
RECURSIVE Base64Encode(_)
Base64Encode(bytes) ==
    IF bytes = <<>>
    THEN <<>>
    ELSE LET n == Len(bytes)
             b1 == bytes[1]
             b2 == IF n >= 2 THEN bytes[2] ELSE 0
             b3 == IF n >= 3 THEN bytes[3] ELSE 0
             group == << Base64Alphabet[(b1 \div 4) + 1],
                         Base64Alphabet[((b1 % 4) * 16 + (b2 \div 16)) + 1],
                         IF n >= 2 THEN Base64Alphabet[((b2 % 16) * 4 + (b3 \div 64)) + 1]
                                   ELSE "=",
                         IF n >= 3 THEN Base64Alphabet[(b3 % 64) + 1] ELSE "=" >>
         IN  group \o (IF n > 3 THEN Base64Encode(SubSeq(bytes, 4, n)) ELSE <<>>)

\* lines 240-244: keystoreData
KeystoreData(uuid1, uuid2, experienceName) ==
    [keystorePassword |-> Join(RemoveHyphens(UuidV4(uuid1))),
     keyPassword |-> Join(RemoveHyphens(UuidV4(uuid2))),
     keyAlias |-> Join(Base64Encode(Utf8(experienceName)))]

CreateKeystoreArgs_PasswordsSwapped(keystorePath, data, androidPackage) ==
    << "-genkey", "-v", "-storepass", data.keyPassword, "-keypass", data.keystorePassword,
       "-keystore", keystorePath, "-alias", data.keyAlias, "-keyalg", "RSA",
       "-keysize", "2048", "-validity", "10000",
       "-dname", "CN=" \o androidPackage \o ",OU=,O=,L=,S=,C=US" >>

\* lines 213-232: the argument list keytool is spawned with
CreateKeystoreArgs(keystorePath, data, androidPackage) ==
    << "-genkey", "-v", "-storepass", data.keystorePassword, "-keypass", data.keyPassword,
       "-keystore", keystorePath, "-alias", data.keyAlias, "-keyalg", "RSA",
       "-keysize", "2048", "-validity", "10000",
       "-dname", "CN=" \o androidPackage \o ",OU=,O=,L=,S=,C=US" >>

\* lines 235-245: both uuids are drawn, keystoreData is built and createKeystore
\* has spawned keytool before the call suspends on it
GenerateUploadKeystoreCall(p) ==
    /\ pc[p] = "idle"
    /\ \E experienceName \in UploadExperienceNames,
          uuid1 \in FreshUuids(gen.used) :
          \E uuid2 \in FreshUuids(gen.used \cup {uuid1}) :
              LET data == KeystoreData(uuid1, uuid2, experienceName)
              IN  /\ call' = [call EXCEPT ![p] =
                                 [NoCall EXCEPT !.op = "generateUploadKeystore",
                                                !.keystorePath = "k",
                                                !.androidPackage = "com.a",
                                                !.experienceName = experienceName,
                                                !.creds = data]]
                  /\ gen' = [gen EXCEPT
                                !.used = @ \cup {uuid1, uuid2},
                                !.spawns[p] = Append(@, [command |-> "keytool",
                                                         args |-> CreateKeystoreArgs("k", data, "com.a")])]
    /\ pc' = [pc EXCEPT ![p] = "awaitKeytool"]
    /\ UNCHANGED <<platform, files, out, result, hashes, pepk, backup, fp, web>>

\* lines 245-246: spawnAsync settles: keytool could not start, or it exited; exit
\* code 0 resolves and the call returns keystoreData, any other code rejects and
\* the rejection leaves the call as it is
KeytoolSettles(p) ==
    /\ pc[p] = "awaitKeytool"
    /\ \/ /\ result' = [result EXCEPT ![p] =
                           Threw(Err("Error", "ENOENT", "", "", "spawn keytool ENOENT"))]
          /\ gen' = [gen EXCEPT !.settled[p] = "ENOENT"]
          /\ UNCHANGED files
       \/ /\ files' = [files EXCEPT ![call[p].keystorePath] = KeystoreBytes]
          /\ result' = [result EXCEPT ![p] = Returned(call[p].creds)]
          /\ gen' = [gen EXCEPT !.settled[p] = "exit 0",
                                !.returned =
                                    Append(@, [experienceName |-> call[p].experienceName,
                                               data |-> call[p].creds])]
       \/ /\ \E wrote \in BOOLEAN :
                files' = IF wrote THEN [files EXCEPT ![call[p].keystorePath] = PartialBytes]
                                  ELSE files
          /\ result' = [result EXCEPT ![p] =
                           Threw(Err("Error", "1", "", "keytool error",
                                     "keytool exited with non-zero code: 1"))]
          /\ gen' = [gen EXCEPT !.settled[p] = "exit 1"]
    /\ pc' = [pc EXCEPT ![p] = "done"]
    /\ UNCHANGED <<platform, call, out, hashes, pepk, backup, fp, web>>

----------------------------------------------------------------------------
(* The fingerprints logKeystoreHashes logs *)

\* a SHA-1 digest is 20 bytes
Sha1Bytes == 20

\* the digests considered: byte i of digest (seed, step) is seed + i * step
MaxSeed == 15
MaxStep == 17

Digest(seed, step) ==
    [i \in 1..Sha1Bytes |-> (seed + i * step) % 256]

\* lines 158, 163: .digest('hex'): two lower-case hex digits per byte
HexOfByte(byte) ==
    << HexDigits[(byte \div 16) + 1], HexDigits[(byte % 16) + 1] >>

RECURSIVE Hex(_)
Hex(bytes) ==
    IF bytes = <<>> THEN <<>> ELSE HexOfByte(Head(bytes)) \o Hex(Tail(bytes))

UpperChar(c) ==
    CASE c = "a" -> "A"
      [] c = "b" -> "B"
      [] c = "c" -> "C"
      [] c = "d" -> "D"
      [] c = "e" -> "E"
      [] c = "f" -> "F"
      [] OTHER -> c

\* lines 159, 164: .toUpperCase()
ToUpperCase(chars) ==
    [i \in 1..Len(chars) |-> UpperChar(chars[i])]

RECURSIVE InsertColons_AfterEveryPair(_)
InsertColons_AfterEveryPair(chars) ==
    IF Len(chars) >= 2
    THEN <<chars[1], chars[2], ":">> \o InsertColons_AfterEveryPair(SubSeq(chars, 3, Len(chars)))
    ELSE chars

\* line 169: .replace(/(.{2}(?!$))/g, '$1:'): from the left, every two characters
\* that are not the last ones of the string get a colon after them; what is
\* left when no such two characters remain is kept as it is
RECURSIVE InsertColons(_)
InsertColons(chars) ==
    IF Len(chars) >= 3
    THEN <<chars[1], chars[2], ":">> \o InsertColons(SubSeq(chars, 3, Len(chars)))
    ELSE chars

\* lines 155-159, 169-170: the SHA-1 of the certificate in upper-case hex, logged
\* with colons and without
DigestsLogged ==
    /\ fp.stage = "read"
    /\ LET googleHash == ToUpperCase(Hex(fp.digest))
           fingerprint == InsertColons(googleHash)
       IN  fp' = [fp EXCEPT
                     !.stage = "logged",
                     !.googleHash = googleHash,
                     !.fingerprint = fingerprint,
                     !.out = << Msg("info", "Google Certificate Fingerprint", <<Join(fingerprint)>>),
                                Msg("info", "Google Certificate Hash (SHA-1)", <<Join(googleHash)>>) >>]
    /\ UNCHANGED <<platform, files, pc, call, out, result, hashes, pepk, backup, gen, web>>

----------------------------------------------------------------------------
(* Web.openProjectAsync (packages/xdl/src/Web.js) *)

ProjectRoots == {"/app", "/lib", "/site"}

\* exp.platforms of the project's configuration
ConfigPlatforms ==
    { <<>>, <<"ios">>, <<"android">>, <<"android", "ios">>,
      <<"web">>, <<"ios", "web">>, <<"web", "android">>, <<"android", "ios", "web">> }

Urls == {"http://localhost:19006", "https://localhost:19006"}

\* Array.prototype.includes
Includes(array, value) ==
    \E i \in 1..Len(array) : array[i] = value

\* the object openProjectAsync returns: url and error are left out where they
\* are "" and NoErr
WebResult(success, url, error) ==
    [success |-> success, url |-> url, error |-> error]

ConfigError == Err("ConfigError", "", "", "", "Error parsing JSON file")
UrlError == Err("Error", "", "", "", "No webpack server running")
OpenError == Err("Error", "ENOENT", "", "", "spawn xdg-open ENOENT")

\* lines 17-18: the call suspends on hasWebSupportAsync, which suspends on
\* readConfigJsonAsync (line 39)
OpenProjectAsyncCall(p) ==
    /\ pc[p] = "idle"
    /\ \E projectRoot \in ProjectRoots :
          call' = [call EXCEPT ![p] =
                      [NoCall EXCEPT !.op = "openProjectAsync", !.projectRoot = projectRoot]]
    /\ pc' = [pc EXCEPT ![p] = "awaitConfig"]
    /\ UNCHANGED <<platform, files, out, result, hashes, pepk, backup, gen, fp, web>>

\* lines 18-25, 38-42: the configuration cannot be read and the rejection leaves
\* openProjectAsync (the await is outside the try), or it is read: without 'web'
\* among the platforms the setup instructions are logged and {success: false}
\* is returned, with it the notice is printed and the url is asked for
ReadConfigSettles(p) ==
    /\ pc[p] = "awaitConfig"
    /\ \/ /\ result' = [result EXCEPT ![p] = Threw(ConfigError)]
          /\ pc' = [pc EXCEPT ![p] = "done"]
          /\ UNCHANGED <<out, web>>
       \/ \E platforms \in ConfigPlatforms :
             /\ web' = [web EXCEPT ![p].platforms = platforms]
             /\ IF Includes(platforms, "web")
                THEN /\ out' = [out EXCEPT ![p] = @ \o
                                   << Msg("console", "", <<>>),
                                      Msg("console", "Web support in Expo is experimental", <<>>),
                                      Msg("console", "", <<>>) >>]
                     /\ pc' = [pc EXCEPT ![p] = "awaitUrl"]
                     /\ UNCHANGED result
                ELSE /\ out' = [out EXCEPT ![p] = @ \o
                                   << Msg("error", "Your project is not configured to support web yet!", <<>>) >>]
                     /\ result' = [result EXCEPT ![p] = Returned(WebResult(FALSE, "", NoErr))]
                     /\ pc' = [pc EXCEPT ![p] = "done"]
    /\ UNCHANGED <<platform, files, call, hashes, pepk, backup, gen, fp>>

\* lines 25-31: constructWebAppUrlAsync settles.  A rejection is caught, logged
\* and returned.  With a url, opn(url, {wait: false}) is called and its promise
\* is dropped: when opn throws, the catch block logs and returns the error;
\* otherwise {success: true, url} is returned at once, whether the promise is
\* going to be fulfilled or rejected.
ConstructUrlSettles(p) ==
    /\ pc[p] = "awaitUrl"
    /\ \/ /\ out' = [out EXCEPT ![p] = @ \o
                        << Msg("error", "Couldn't start project on web", <<UrlError.message>>) >>]
          /\ result' = [result EXCEPT ![p] = Returned(WebResult(FALSE, "", UrlError))]
          /\ UNCHANGED web
       \/ \E url \in Urls, outcome \in {"threw", "launching", "failing"} :
             /\ web' = [web EXCEPT ![p].url = url,
                                   ![p].opens = Append(@, url),
                                   ![p].openOutcome = outcome]
             /\ IF outcome = "threw"
                THEN /\ out' = [out EXCEPT ![p] = @ \o
                                   << Msg("error", "Couldn't start project on web",
                                          <<OpenError.message>>) >>]
                     /\ result' = [result EXCEPT ![p] =
                                      Returned(WebResult(FALSE, "", OpenError))]
                ELSE /\ result' = [result EXCEPT ![p] = Returned(WebResult(TRUE, url, NoErr))]
                     /\ UNCHANGED out
    /\ pc' = [pc EXCEPT ![p] = "done"]
    /\ UNCHANGED <<platform, files, call, hashes, pepk, backup, gen, fp>>

\* line 26: the promise opn returned settles after openProjectAsync has returned;
\* nothing was attached to it, so a rejection is nobody's
OpenSettles(p) ==
    /\ pc[p] = "done"
    /\ web[p].openOutcome \in {"launching", "failing"}
    /\ web' = [web EXCEPT
                  ![p].openOutcome = IF @ = "launching" THEN "launched" ELSE "failed",
                  ![p].unhandled = IF web[p].openOutcome = "failing" THEN OpenError ELSE NoErr]
    /\ UNCHANGED <<platform, files, pc, call, out, result, hashes, pepk, backup, gen, fp>>

----------------------------------------------------------------------------
(* The caller *)

\* the caller takes the result and is free to call again
Return(p) ==
    /\ pc[p] = "done"
    /\ pc' = [pc EXCEPT ![p] = "idle"]
    /\ call' = [call EXCEPT ![p] = NoCall]
    /\ out' = [out EXCEPT ![p] = <<>>]
    /\ result' = [result EXCEPT ![p] = NoResult]
    /\ hashes' = [hashes EXCEPT ![p] = NoHashes]
    /\ pepk' = [pepk EXCEPT ![p] = NoPepk]
    /\ backup' = [backup EXCEPT ![p] = NoBackup]
    /\ gen' = [gen EXCEPT !.spawns[p] = <<>>, !.settled[p] = "pending"]
    /\ web' = [web EXCEPT ![p] = NoWeb]
    /\ UNCHANGED <<fp, platform, files>>

Init ==
    /\ platform \in Platforms
    /\ \E fs \in [Paths -> {Absent, KeystoreBytes}], tool \in {Absent, PepkJar} :
          files = [f \in AllPaths |-> IF f = EncryptToolPath THEN tool
                                       ELSE IF f \in Paths THEN fs[f]
                                       ELSE Absent]
    /\ pc = [p \in Procs |-> "idle"]
    /\ call = [p \in Procs |-> NoCall]
    /\ out = [p \in Procs |-> <<>>]
    /\ result = [p \in Procs |-> NoResult]
    /\ hashes = [p \in Procs |-> NoHashes]
    /\ pepk = [p \in Procs |-> NoPepk]
    /\ backup = [p \in Procs |-> NoBackup]
    /\ gen = NoGen
    /\ fp = NoFp
    /\ web = [p \in Procs |-> NoWeb]

Next ==
    \E p \in Callers :
        \/ LogKeystoreHashesCall(p)
        \/ ExportCert(p)
        \/ LogKeystoreHashesResume(p)
        \/ ExportPrivateKeyCall(p)
        \/ AxiosSettles(p)
        \/ FileStreamError(p)
        \/ ResponseStreamFails(p)
        \/ FileFinish(p)
        \/ ChildExit(p)
        \/ ChildError(p)
        \/ BackupExistingCredentialsCall(p)
        \/ GetCredentialsSettles(p)
        \/ LogKeystoreCredentials(p)
        \/ Return(p)

Spec == Init /\ [][Next]_vars

----------------------------------------------------------------------------
(* Two concurrent logKeystoreHashes operations *)

\* every keystore path holds a keystore, nothing else exists
ConcInit ==
    /\ platform = "linux"
    /\ files = [f \in AllPaths |-> IF f \in ConcKeystorePaths THEN KeystoreBytes ELSE Absent]
    /\ pc = [p \in Procs |-> "idle"]
    /\ call = [p \in Procs |-> NoCall]
    /\ out = [p \in Procs |-> <<>>]
    /\ result = [p \in Procs |-> NoResult]
    /\ hashes = [p \in Procs |-> NoHashes]
    /\ pepk = [p \in Procs |-> NoPepk]
    /\ backup = [p \in Procs |-> NoBackup]
    /\ gen = NoGen
    /\ fp = NoFp
    /\ web = [p \in Procs |-> NoWeb]

ConcHashesCall(p) ==
    HashesCallWith(p, ConcKeystorePaths, {"default"},
                   {[keystorePassword |-> "pw1", keyAlias |-> "alias", keyPassword |-> "pw2"]})

\* each caller makes one call; the steps of the two calls interleave at their
\* suspend points
ConcNext ==
    \E p \in Procs :
        \/ ConcHashesCall(p)
        \/ ExportCert(p)
        \/ LogKeystoreHashesResume(p)

ConcSpec == ConcInit /\ [][ConcNext]_vars

----------------------------------------------------------------------------
(* Upload keystore generation, call after call *)

GenInit ==
    /\ platform = "linux"
    /\ files = [f \in AllPaths |-> Absent]
    /\ pc = [p \in Procs |-> "idle"]
    /\ call = [p \in Procs |-> NoCall]
    /\ out = [p \in Procs |-> <<>>]
    /\ result = [p \in Procs |-> NoResult]
    /\ hashes = [p \in Procs |-> NoHashes]
    /\ pepk = [p \in Procs |-> NoPepk]
    /\ backup = [p \in Procs |-> NoBackup]
    /\ gen = NoGen
    /\ fp = NoFp
    /\ web = [p \in Procs |-> NoWeb]

GenNext ==
    \E p \in Callers :
        \/ GenerateUploadKeystoreCall(p)
        \/ KeytoolSettles(p)
        \/ Return(p)

GenSpec == GenInit /\ [][GenNext]_vars

----------------------------------------------------------------------------
(* Fingerprint formatting, certificate by certificate *)

\* the certificate has been exported and read; its SHA-1 is any of the digests
FormatInit ==
    /\ platform = "linux"
    /\ files = [f \in AllPaths |-> Absent]
    /\ pc = [p \in Procs |-> "idle"]
    /\ call = [p \in Procs |-> NoCall]
    /\ out = [p \in Procs |-> <<>>]
    /\ result = [p \in Procs |-> NoResult]
    /\ hashes = [p \in Procs |-> NoHashes]
    /\ pepk = [p \in Procs |-> NoPepk]
    /\ backup = [p \in Procs |-> NoBackup]
    /\ gen = NoGen
    /\ \E seed \in 0..MaxSeed, step \in 0..MaxStep :
          fp = [NoFp EXCEPT !.stage = "read", !.digest = Digest(seed, step)]
    /\ web = [p \in Procs |-> NoWeb]

FormatNext ==
    DigestsLogged

FormatSpec == FormatInit /\ [][FormatNext]_vars

----------------------------------------------------------------------------
(* Opening the project on the web, call after call *)

WebInit ==
    /\ platform = "linux"
    /\ files = [f \in AllPaths |-> Absent]
    /\ pc = [p \in Procs |-> "idle"]
    /\ call = [p \in Procs |-> NoCall]
    /\ out = [p \in Procs |-> <<>>]
    /\ result = [p \in Procs |-> NoResult]
    /\ hashes = [p \in Procs |-> NoHashes]
    /\ pepk = [p \in Procs |-> NoPepk]
    /\ backup = [p \in Procs |-> NoBackup]
    /\ gen = NoGen
    /\ fp = NoFp
    /\ web = [p \in Procs |-> NoWeb]

WebNext ==
    \E p \in Callers :
        \/ OpenProjectAsyncCall(p)
        \/ ReadConfigSettles(p)
        \/ ConstructUrlSettles(p)
        \/ OpenSettles(p)
        \/ Return(p)

WebSpec == WebInit /\ [][WebNext]_vars

----------------------------------------------------------------------------
(* Properties of logKeystoreHashes *)

HashesDone(p) ==
    pc[p] = "done" /\ call[p].op = "logKeystoreHashes"

InOut(p, level, tpl) ==
    \E i \in 1..Len(out[p]) : out[p][i].level = level /\ out[p][i].tpl = tpl

\* C1: on every path of logKeystoreHashes (export ok, export failed, read
\* failed) the file at <keystorePath>.cer does not exist when the call has
\* returned or thrown, provided the unlink did not fail.
C1_TempCertRemoved ==
    \A p \in Callers :
        HashesDone(p) /\ hashes[p].unlinkErr = NoErr
            => files[CertFile(call[p].keystorePath)] = Absent

\* C1 witness: a failed export left a file at the certificate path and the call
\* threw after unlinking it.
C1_Witness ==
    \E p \in Callers :
        /\ HashesDone(p)
        /\ hashes[p].exportErr.name # "none"
        /\ hashes[p].unlinked
        /\ result[p].kind = "throw"

\* C2: a cleanup error never changes the outcome of logKeystoreHashes: ENOENT is
\* swallowed silently, any other unlink error is reported through the log sink,
\* and the call ends as its body ended, for every sink including the default.
C2_CleanupNeverOverrides ==
    \A p \in Callers :
        HashesDone(p) /\ hashes[p].unlinkErr # NoErr
            => /\ result[p] = hashes[p].body
               /\ (hashes[p].unlinkErr.code = "ENOENT") = ~InOut(p, "error", "cleanup")

\* C3: when the export fails because keytool is missing (ENOENT), the install
\* guidance reaches the sink and the caller gets that same tool-not-found
\* error, for every sink including the default.
C3_ToolMissingGuidance ==
    \A p \in Callers :
        HashesDone(p) /\ hashes[p].exportErr.code = "ENOENT"
            => /\ InOut(p, "warn", "Are you sure you have keytool installed?")
               /\ InOut(p, "info", "keytool is part of openJDK")
               /\ InOut(p, "info", "Also make sure that keytool is in your PATH")
               /\ result[p] = Threw(hashes[p].exportErr)

\* C4: when the export fails with captured stdout and/or stderr, every captured
\* stream is passed to the log sink before the call ends and the caller gets the
\* original tool error unchanged.
C4_CapturedStreamsSurfaced ==
    \A p \in Callers :
        HashesDone(p) /\ hashes[p].exportErr.name # "none"
            => /\ hashes[p].exportErr.stdout # "" => InOut(p, "info", "stdout")
               /\ hashes[p].exportErr.stderr # "" => InOut(p, "error", "stderr")
               /\ (hashes[p].exportErr.stdout # "" \/ hashes[p].exportErr.stderr # "")
                      => result[p] = Threw(hashes[p].exportErr)

----------------------------------------------------------------------------
(* Properties of exportPrivateKey *)

PepkCall(p) == call[p].op = "exportPrivateKey"

SuccessLogged(p) ==
    \E i \in 1..Len(out[p]) : out[p][i] = SuccessMsg(call[p].outputPath)

Delivered(p, event) ==
    \E i \in 1..Len(pepk[p].events) : pepk[p].events[i] = event

LineTerminator == IF platform = "win32" THEN "\r\n" ELSE "\n"

\* C5: a session that was spawned goes spawned, password1-sent,
\* password2-sent, exited in that order; exactly two lines are written,
\* keystorePassword then keyPassword, each with the platform line terminator,
\* both before the exit is handled and before success is logged, and nothing is
\* written afterwards.
C5_SessionProtocol ==
    \A p \in Callers :
        PepkCall(p) /\ pepk[p].spawns > 0
            => /\ pepk[p].trace \in
                      { <<"spawned", "password1-sent", "password2-sent">>,
                        <<"spawned", "password1-sent", "password2-sent", "exited">> }
               /\ pepk[p].writes = << call[p].creds.keystorePassword \o LineTerminator,
                                      call[p].creds.keyPassword \o LineTerminator >>
               /\ SuccessLogged(p) => Delivered(p, <<"exit", 0>>)
               /\ pepk[p].spawns = 1

\* C5 witness: on win32, a session with two different passwords has exited with
\* code 0 and success has been logged.
C5_Witness ==
    \E p \in Callers :
        /\ PepkCall(p)
        /\ platform = "win32"
        /\ call[p].creds.keystorePassword # call[p].creds.keyPassword
        /\ pepk[p].trace = <<"spawned", "password1-sent", "password2-sent", "exited">>
        /\ SuccessLogged(p)

\* C6 (as stated): exportPrivateKey returns normally and logs success if and only
\* if the child exits with code 0; a non-zero exit, an error event of the
\* session or a failed spawn make it fail with the key-export error carrying the
\* code or cause, without the success message.
C6_SuccessIffExitZero ==
    \A p \in Callers :
        PepkCall(p) /\ pc[p] = "done"
            => /\ (result[p].kind = "return") = Delivered(p, <<"exit", 0>>)
               /\ (result[p].kind = "return") = SuccessLogged(p)
               /\ Delivered(p, <<"exit", 1>>)
                      => result[p] = Threw(KeyExportError(ToString(1)))
               /\ Delivered(p, <<"error", 0>>)
                      => result[p] = Threw(KeyExportError(ErrorToString(PtyError)))

SpawnFailed(p) ==
    pepk[p].fetchFailure = "none" /\ pepk[p].spawns = 0 /\ pepk[p].settled = "rejected"

\* C6 (amended): the outcome is that of the first event the session delivers:
\* exportPrivateKey returns normally and logs success if and only if that first
\* event is the child's exit with code 0; when it is a non-zero exit or an error
\* event, or when the child cannot be spawned, the call fails with the
\* key-export error carrying the code or cause and success is not logged.
C6_SuccessIffFirstEventExitZero ==
    \A p \in Callers :
        PepkCall(p) /\ pc[p] = "done"
            => /\ (result[p].kind = "return") =
                      (pepk[p].events # <<>> /\ pepk[p].events[1] = <<"exit", 0>>)
               /\ (result[p].kind = "return") = SuccessLogged(p)
               /\ pepk[p].events # <<>> /\ pepk[p].events[1] = <<"exit", 1>>
                      => result[p] = Threw(KeyExportError(ToString(1)))
               /\ pepk[p].events # <<>> /\ pepk[p].events[1] = <<"error", 0>>
                      => result[p] = Threw(KeyExportError(ErrorToString(PtyError)))
               /\ SpawnFailed(p)
                      => result[p] = Threw(KeyExportError(ErrorToString(SpawnError)))

\* C6 witness: the session reported an error first and the child then exited
\* with code 0; the call has failed.
C6_Witness ==
    \E p \in Callers :
        /\ PepkCall(p)
        /\ pc[p] = "done"
        /\ pepk[p].events = << <<"error", 0>>, <<"exit", 0>> >>
        /\ result[p].kind = "throw"

\* C7: with the tool absent from the cache path, every I/O failure of the fetch
\* (request, response stream, file write) ends the call with an error, and the
\* tool is not spawned in that call.
C7_FetchFailureEndsCall ==
    \A p \in Callers :
        PepkCall(p) /\ pepk[p].fetchFailure # "none"
            => /\ pc[p] = "done"
               /\ result[p].kind = "throw"
               /\ pepk[p].spawns = 0

----------------------------------------------------------------------------
(* Properties of backupExistingCredentials and of the log sink *)

BackupCall(p) == call[p].op = "backupExistingCredentials"

Mentions(msg, text) ==
    \E i \in 1..Len(msg.args) : msg.args[i] = text

\* C8: when the lookup returns no record the call fails with the
\* credential-not-found error, writes nothing to outputPath and returns no
\* secrets; in every run the lookup completes before any write to outputPath.
C8_LookupBeforeWrite ==
    \A p \in Callers :
        BackupCall(p)
            => /\ pc[p] = "done" /\ backup[p].lookup = "null"
                      => /\ result[p] = Threw(CredentialNotFound)
                         /\ result[p].value = NoSecrets
                         /\ ~backup[p].wrote
                         /\ files[call[p].outputPath] = backup[p].before
               /\ backup[p].lookup = "pending"
                      => ~backup[p].wrote /\ files[call[p].outputPath] = backup[p].before
               /\ backup[p].wrote => backup[p].lookup = "found"

\* C8 witness: a lookup that found nothing has ended a call whose outputPath
\* held a file.
C8_Witness ==
    \E p \in Callers :
        /\ BackupCall(p)
        /\ pc[p] = "done"
        /\ backup[p].lookup = "null"
        /\ backup[p].before = KeystoreBytes

\* C9: a successful backup returns the record's keystore password, key alias
\* and key password whatever logSecrets is; with logSecrets false no message
\* given to the sink during the call contains either password.
C9_SecretsReturnedNotLogged ==
    \A p \in Callers :
        BackupCall(p) /\ pc[p] = "done" /\ result[p].kind = "return"
            => /\ result[p].value.keystorePassword = backup[p].record.keystorePassword
               /\ result[p].value.keyAlias = backup[p].record.keystoreAlias
               /\ result[p].value.keyPassword = backup[p].record.keyPassword
               /\ backup[p].record \in CredentialRecords
               /\ call[p].logSecrets = "false"
                      => \A i \in 1..Len(out[p]) :
                            /\ ~Mentions(out[p][i], backup[p].record.keystorePassword)
                            /\ ~Mentions(out[p][i], backup[p].record.keyPassword)

\* C9 witness: a backup called with logSecrets false has returned the secrets.
C9_Witness ==
    \E p \in Callers :
        /\ BackupCall(p)
        /\ pc[p] = "done"
        /\ result[p].kind = "return"
        /\ call[p].logSecrets = "false"
        /\ result[p].value.keystorePassword = "pw1"

PasswordsOf(p) ==
    { call[p].creds.keystorePassword, call[p].creds.keyPassword,
      backup[p].record.keystorePassword, backup[p].record.keyPassword } \ {""}

\* C10: in every call of every operation, a message containing a keystore
\* password or a key password reaches the sink only if the caller passed the
\* logSecrets opt-in explicitly; calls that leave the flag out, and operations
\* that have no such flag, never log those values.
C10_SecretsLoggedOnlyOnOptIn ==
    \A p \in Callers :
        \A i \in 1..Len(out[p]) :
            (\E pw \in PasswordsOf(p) : Mentions(out[p][i], pw))
                => call[p].logSecrets = "true"

----------------------------------------------------------------------------
(* Further properties of backupExistingCredentials and exportPrivateKey *)

\* C13: the decoded keystore is written to outputPath atomically: at every
\* point of every run outputPath holds its previous content or the complete
\* decoded keystore, never a partial one, and a failed write leaves outputPath
\* as it was.
C13_AtomicWrite ==
    \A p \in Callers :
        BackupCall(p)
            => /\ files[call[p].outputPath] \in
                      { backup[p].before, Base64Decode(backup[p].record.keystore) }
               /\ pc[p] = "done" /\ backup[p].wrote /\ result[p].kind = "throw"
                      => files[call[p].outputPath] = backup[p].before

\* C16: across any sequence of exportPrivateKey calls the tool is spawned only
\* from a completely downloaded file: a failed or interrupted fetch leaves
\* nothing at the cache path that lets a later call skip the download.
C16_SpawnOnlyCompleteTool ==
    \A p \in Callers :
        PepkCall(p) /\ pepk[p].spawns > 0 => files[EncryptToolPath] = PepkJar

SuccessCount(p) ==
    Cardinality({ i \in 1..Len(out[p]) : out[p][i] = SuccessMsg(call[p].outputPath) })

\* C17: the first of the child's 'error' and 'exit' events fixes the outcome of
\* the session: once the call has ended a later event leaves its result as it
\* is, and the success message is logged at most once and only if the first
\* event was an exit with code 0.
C17_FirstEventDecides ==
    [][ \A p \in Callers :
            /\ PepkCall(p) /\ pc[p] = "done" /\ pc'[p] = "done"
                   => result'[p] = result[p]
            /\ call'[p].op = "exportPrivateKey"
                   => /\ SuccessCount(p)' <= 1
                      /\ SuccessCount(p)' = 1
                             => /\ pepk'[p].events # <<>>
                                /\ pepk'[p].events[1] = <<"exit", 0>> ]_vars

\* C17 witness: the child exited with code 0, the call returned, and the session
\* reported an error afterwards.
C17_Witness ==
    \E p \in Callers :
        /\ PepkCall(p)
        /\ pc[p] = "done"
        /\ pepk[p].events = << <<"exit", 0>>, <<"error", 0>> >>
        /\ result[p].kind = "return"
        /\ SuccessCount(p) = 1

----------------------------------------------------------------------------
(* Frame of logKeystoreHashes *)

HashesCall(p) == call[p].op = "logKeystoreHashes"

\* C18 (as stated): logKeystoreHashes deletes the file at <keystorePath>.cer
\* only when its own export produced it in the same call: a file that was
\* already there and that the export did not produce is still there after the
\* call, and the keystore file is never modified.
C18_DeletesOnlyOwnCertificate ==
    \A p \in Callers :
        HashesDone(p)
            => LET k == call[p].keystorePath
                   certFile == CertFile(k)
               IN  /\ hashes[p].unlinked
                          => hashes[p].exported \/ hashes[p].wroteFile
                   /\ (hashes[p].before[certFile] # Absent
                           /\ ~hashes[p].exported /\ ~hashes[p].wroteFile)
                          => files[certFile] = hashes[p].before[certFile]
                   /\ files[k] = hashes[p].before[k]

\* C18 (amended): logKeystoreHashes removes whatever file is at
\* <keystorePath>.cer when the call ends, whether or not its own export
\* produced it (unless the unlink fails); it touches no other path, and the
\* keystore file itself is never modified.
C18_DeletesCertificatePathOnly ==
    \A p \in Callers :
        HashesCall(p)
            => LET k == call[p].keystorePath
                   certFile == CertFile(k)
               IN  /\ files[k] = hashes[p].before[k]
                   /\ \A f \in AllPaths \ {certFile} : files[f] = hashes[p].before[f]
                   /\ pc[p] = "done" /\ hashes[p].unlinkErr.code \in {"", "ENOENT"}
                          => files[certFile] = Absent

\* C18 witness: a file was at the certificate path before the call, the export
\* failed without writing, and the call has deleted the file.
C18_Witness ==
    \E p \in Callers :
        /\ HashesDone(p)
        /\ hashes[p].before[CertFile(call[p].keystorePath)] = KeystoreBytes
        /\ ~hashes[p].exported
        /\ ~hashes[p].wroteFile
        /\ hashes[p].unlinked
        /\ files[CertFile(call[p].keystorePath)] = Absent

----------------------------------------------------------------------------
(* Concurrent logKeystoreHashes operations *)

\* what the operation of p sees of the operation of q when the two overlap:
\* p reads only the certificate its own export produced, that certificate is
\* still in place when p comes to read it, and the keystore p was given is as
\* it was when p began
Undisturbed(p, q) ==
    LET kp == call[p].keystorePath
        kq == call[q].keystorePath
    IN  /\ hashes[p].readFrom # "" => hashes[p].readFrom = CertOf(kp)
        /\ hashes[p].exported /\ pc[p] = "exportSettled"
               => files[CertFile(kp)] = CertOf(kp)
        /\ files[kp] = hashes[p].before[kp]

Overlapping(p, q) ==
    /\ p # q
    /\ HashesCall(p)
    /\ HashesCall(q)
    /\ q \in hashes[p].with

\* C11 (as stated): two logKeystoreHashes operations that run concurrently on
\* distinct keystore paths never collide, under every interleaving: each reads
\* only the certificate its own export produced and neither overwrites or
\* deletes a file the other reads, wrote or was given as its keystore.
C11_DistinctKeystoresNeverCollide ==
    \A p \in Procs, q \in Procs :
        Overlapping(p, q) /\ call[p].keystorePath # call[q].keystorePath
            => Undisturbed(p, q)

\* C11 (amended): the same, for keystore paths of which neither is the other's
\* path followed by ".cer".
C11_UnrelatedKeystoresNeverCollide ==
    \A p \in Procs, q \in Procs :
        ( /\ Overlapping(p, q)
          /\ call[p].keystorePath # call[q].keystorePath
          /\ call[p].keystorePath # call[q].keystorePath \o ".cer"
          /\ call[q].keystorePath # call[p].keystorePath \o ".cer" )
            => Undisturbed(p, q)

\* C11 witness: two overlapping operations on unrelated keystore paths have both
\* read their own certificate and ended.
C11_Witness ==
    \E p \in Procs, q \in Procs :
        /\ Overlapping(p, q)
        /\ call[p].keystorePath = "k"
        /\ call[q].keystorePath = "j"
        /\ pc[p] = "done" /\ pc[q] = "done"
        /\ hashes[p].readFrom = CertOf("k")
        /\ hashes[q].readFrom = CertOf("j")
        /\ hashes[p].unlinked /\ hashes[q].unlinked

----------------------------------------------------------------------------
(* Properties of generateUploadKeystore *)

GenCall(p) ==
    call[p].op = "generateUploadKeystore"

\* the argument that follows a flag on keytool's command line
ArgAfter(args, flag) ==
    args[(CHOOSE i \in 1..Len(args) : args[i] = flag) + 1]

\* C12: generateUploadKeystore returns the generated secrets only when keytool
\* exited with code 0; when keytool exits non-zero or cannot start, its error
\* reaches the caller and no secrets are returned.  keytool is invoked exactly
\* once per call, with the keystore password, key password and alias returned.
C12_SecretsOnlyOnExitZero ==
    \A p \in Callers :
        GenCall(p)
            => /\ Len(gen.spawns[p]) = 1
               /\ gen.spawns[p][1].command = "keytool"
               /\ pc[p] = "done"
                      => /\ (result[p].kind = "return") = (gen.settled[p] = "exit 0")
                         /\ result[p].kind = "return"
                                => LET args == gen.spawns[p][1].args
                                   IN  /\ result[p].value.keystorePassword # ""
                                       /\ result[p].value.keyPassword # ""
                                       /\ result[p].value.keyAlias # ""
                                       /\ ArgAfter(args, "-storepass") = result[p].value.keystorePassword
                                       /\ ArgAfter(args, "-keypass") = result[p].value.keyPassword
                                       /\ ArgAfter(args, "-alias") = result[p].value.keyAlias
                         /\ gen.settled[p] = "exit 1"
                                => /\ result[p].kind = "throw"
                                   /\ result[p].err.code = "1"
                                   /\ result[p].value = NoSecrets
                         /\ gen.settled[p] = "ENOENT"
                                => /\ result[p].kind = "throw"
                                   /\ result[p].err.code = "ENOENT"
                                   /\ result[p].value = NoSecrets

\* C12 witness: a call for "@u/a" that drew the uuids 1 and 2 has returned after
\* keytool exited with 0.
C12_Witness ==
    \E p \in Callers :
        /\ GenCall(p)
        /\ pc[p] = "done"
        /\ gen.settled[p] = "exit 0"
        /\ result[p] = Returned([keystorePassword |-> "11111111111141118111111111111111",
                                 keyPassword |-> "22222222222242228222222222222222",
                                 keyAlias |-> "QHUvYQ=="])
        /\ files[call[p].keystorePath] = KeystoreBytes

PasswordPair(data) ==
    <<data.keystorePassword, data.keyPassword>>

\* C15: two calls of generateUploadKeystore with the same application name
\* return the same keyAlias, whatever the random passwords are, and the
\* keystorePassword/keyPassword pairs the two calls return differ.
C15_SameAliasFreshPasswords ==
    \A i \in 1..Len(gen.returned), j \in 1..Len(gen.returned) :
        i < j
            => /\ gen.returned[i].experienceName = gen.returned[j].experienceName
                      => gen.returned[i].data.keyAlias = gen.returned[j].data.keyAlias
               /\ PasswordPair(gen.returned[i].data) # PasswordPair(gen.returned[j].data)

\* C15 witness: two calls for "@u/ab" have returned, with the alias of that name
\* and different passwords.
C15_Witness ==
    /\ Len(gen.returned) = 2
    /\ gen.returned[1].experienceName = <<"@", "u", "/", "a", "b">>
    /\ gen.returned[2].experienceName = <<"@", "u", "/", "a", "b">>
    /\ gen.returned[1].data.keyAlias = "QHUvYWI="
    /\ gen.returned[2].data.keyAlias = "QHUvYWI="
    /\ gen.returned[1].data.keystorePassword # gen.returned[2].data.keystorePassword
    /\ gen.returned[1].data.keyPassword # gen.returned[2].data.keyPassword

----------------------------------------------------------------------------
(* Properties of the fingerprints *)

UpperHexChars ==
    {"0", "1", "2", "3", "4", "5", "6", "7", "8", "9", "A", "B", "C", "D", "E", "F"}

ColonsIn(chars) ==
    Cardinality({i \in 1..Len(chars) : chars[i] = ":"})

\* C14: for every certificate, the SHA-1 fingerprint logged by
\* logKeystoreHashes is 40 upper-case hex characters, and the colon-separated
\* form is those same 40 characters grouped in pairs from the start, with
\* exactly 19 colons, one between each two adjacent pairs, and no trailing colon.
C14_FingerprintFormat ==
    fp.stage = "logged"
        => /\ Len(fp.googleHash) = 40
           /\ \A i \in 1..Len(fp.googleHash) : fp.googleHash[i] \in UpperHexChars
           /\ Len(fp.fingerprint) = 59
           /\ ColonsIn(fp.fingerprint) = 19
           /\ \A k \in 1..20 :
                  /\ fp.fingerprint[3 * k - 2] = fp.googleHash[2 * k - 1]
                  /\ fp.fingerprint[3 * k - 1] = fp.googleHash[2 * k]
           /\ \A k \in 1..19 : fp.fingerprint[3 * k] = ":"
           /\ fp.fingerprint[Len(fp.fingerprint)] # ":"
           /\ fp.out[1].args = <<Join(fp.fingerprint)>>
           /\ fp.out[2].args = <<Join(fp.googleHash)>>

\* C14 witness: the digest 1b 2c 3d ... has been logged in both forms.
C14_Witness ==
    /\ fp.stage = "logged"
    /\ fp.digest = Digest(10, 17)
    /\ fp.out[1].args = <<"1B:2C:3D:4E:5F:70:81:92:A3:B4:C5:D6:E7:F8:09:1A:2B:3C:4D:5E">>
    /\ fp.out[2].args = <<"1B2C3D4E5F708192A3B4C5D6E7F8091A2B3C4D5E">>

----------------------------------------------------------------------------
(* Properties of Web.openProjectAsync *)

WebCall(p) ==
    call[p].op = "openProjectAsync"

\* C19: openProjectAsync opens the browser only when the configured platforms
\* include 'web'; when they do not, it logs the setup instructions and returns
\* {success: false} without constructing a url or opening anything; it returns
\* {success: true, url} exactly when the url was constructed and the open was
\* issued with that url; a failure while constructing the url or opening is
\* returned as {success: false, error} and not thrown.
C19_OpensOnlyWebAndReturnsFailures ==
    \A p \in Callers :
        WebCall(p) /\ pc[p] = "done" /\ web[p].platforms # "unread"
            => /\ web[p].opens # <<>> => Includes(web[p].platforms, "web")
               /\ ~Includes(web[p].platforms, "web")
                      => /\ result[p] = Returned(WebResult(FALSE, "", NoErr))
                         /\ web[p].url = ""
                         /\ web[p].opens = <<>>
                         /\ InOut(p, "error", "Your project is not configured to support web yet!")
               /\ result[p].kind = "return"
               /\ result[p].value.success
                      = (web[p].url # "" /\ web[p].opens = <<web[p].url>>
                                         /\ web[p].openOutcome # "threw")
               /\ result[p].value.success => result[p].value.url = web[p].url
               /\ web[p].openOutcome \in {"threw", "failed"}
                      => /\ ~result[p].value.success
                         /\ result[p].value.error = OpenError
               /\ web[p].unhandled = NoErr

====
